---- MODULE Spec2Model ----
(***************************************************************************)
(* Inference-serving core of the cats-vs-dogs classifier:                  *)
(*   src/src/models/predict.py  CatsDogsPredictor (load, predict, ready)   *)
(*   src/src/api/app.py         startup, /health, /ready, /predict         *)
(* Every predictor object ever constructed is kept in objs, with the line  *)
(* its constructor has reached, so that the state of an instance whose     *)
(* load failed can still be inspected.                                     *)
(***************************************************************************)
EXTENDS Integers, Sequences, FiniteSets, TLC

\* ---------------------------------------------------------------- bounds
MaxClasses == 3        \* class counts 1..MaxClasses appear in checkpoints
MaxRequests == 3       \* HTTP requests served in one run
MaxInFlight == 2       \* /predict requests suspended at `await file.read()`
MaxTheta == 1          \* distinct weight values a state dict may carry
MaxPix == 1            \* distinct decodable image contents
MaxLazy == 2            \* predictors constructed through get_predictor
MaxBuilt == 2           \* predictors a library caller constructs
MaxSide == 3            \* source images are 1..MaxSide wide and high
MaxSize == 2            \* target image sizes 1..MaxSize
MaxBatch == 3           \* batches of 1..MaxBatch images
MaxThreads == 2         \* threads that call get_predictor
MaxCalls == 3           \* calls of get_predictor a thread makes
MaxEpochs == 3          \* config training.epochs is 0..MaxEpochs

\* ------------------------------------------------------ program constants
HIDDEN == 128                 \* nn.Linear(256, 128)
INPUT_SIZE == 224              \* cnn.py:32, 95: side of the input images
ACCURACY_GATE == 50           \* validate_model.py:39: val_acc <= 0.50, in hundredths
DEFAULT_NUM_CLASSES == 2      \* model_config.get('num_classes', 2)
DEFAULT_DROPOUT == 50         \* model_config.get('dropout', 0.5), in percent
DEFAULT_MODEL_PATH == "models/best_model.pt"
CLASSES == <<"cat", "dog">>

\* A key that a dict does not hold (dict.get then yields its default).
Absent == 0
\* Python's None for an object reference.
None == 0

\* ------------------------------------------------------------ checkpoints
\* The `config` entry of a checkpoint.
Configs ==
    {[present |-> FALSE, num_classes |-> Absent, dropout |-> Absent]}
    \cup {c \in [present : {TRUE}, num_classes : {Absent} \cup (1..MaxClasses),
                  dropout : {Absent, 30}] :
            c.dropout = Absent \/ c.num_classes = Absent}

\* The `model_state_dict` entry: the shape of the classifier head it holds
\* (hidden width, number of outputs) and the values of its weights.
StateDicts ==
    {[present |-> FALSE, hidden |-> 0, out |-> 0, theta |-> 0]}
    \cup {s \in [present : {TRUE}, hidden : {HIDDEN, HIDDEN - 1},
                  out : 1..MaxClasses, theta : 0..MaxTheta] :
            s.hidden = HIDDEN \/ (s.out = DEFAULT_NUM_CLASSES /\ s.theta = 0)}

NoConfig == [present |-> FALSE, num_classes |-> Absent, dropout |-> Absent]
NoStateDict == [present |-> FALSE, hidden |-> 0, out |-> 0, theta |-> 0]

\* What a path of the file system holds: nothing, bytes torch.load cannot
\* parse, a pickled object that is not a mapping, or a checkpoint mapping.
Artifacts ==
    {[kind |-> k, config |-> NoConfig, sd |-> NoStateDict] :
        k \in {"missing", "garbage", "nondict"}}
    \cup {[kind |-> "dict", config |-> c, sd |-> s] : c \in Configs, s \in StateDicts}

Paths == {DEFAULT_MODEL_PATH}

\* ------------------------------------------------------------- the model
NoModel == [built |-> FALSE, arch |-> <<0, 0>>, weights |-> <<0, 0>>, theta |-> 0,
            dropout |-> 0, dev |-> "cpu", training |-> FALSE]

\* SimpleCNN(num_classes, dropout): freshly initialised weights of the
\* architecture's own shape, on the CPU, in training mode.
SimpleCNN(num_classes, dropout) ==
    [built |-> TRUE, arch |-> <<HIDDEN, num_classes>>, weights |-> <<HIDDEN, num_classes>>,
     theta |-> 0, dropout |-> dropout, dev |-> "cpu", training |-> TRUE]

VARIABLES
    fs,          \* file system: path -> artifact
    cuda,        \* torch.cuda.is_available()
    predictor,   \* app.py global `predictor`: None or an object id
    _predictor,  \* predict.py global `_predictor`: None or an object id
    ret,         \* what the last get_predictor call returned (None: nothing yet, or it raised)
    objs,        \* heap of CatsDogsPredictor objects, in allocation order
    startup,     \* position of startup_event: "pending", "constructing", "except", "done"
    e,           \* the exception bound by `except Exception as e` ("" unbound)
    stdout,      \* the lines printed so far
    proc,        \* the hosting process: "running" or "crashed"
    resp,        \* the last response sent
    nreq,        \* responses sent so far
    inflight,    \* uploads of /predict requests suspended at the read
    metrics,     \* Prometheus counters
    grad,        \* torch.is_grad_enabled() of the serving thread
    results,     \* history: body -> the outcomes inference has given for it
    pre,         \* a preprocessing call (preprocessing.py, predict.py:67-103)
    net,         \* a forward pass of SimpleCNN on a batch (cnn.py)
    callers,     \* the threads inside get_predictor (predict.py:145-150)
    trainer,     \* the training run (train.py main)
    validator    \* the validation script (validate_model.py)

\* The state of the server and of the predictor library.
serving == <<fs, cuda, predictor, _predictor, ret, objs, startup, e, stdout, proc, resp, nreq, inflight, metrics, grad, results>>
\* The state of the programs that run beside the server.
jobs == <<pre, net, callers, trainer, validator>>

vars == <<serving, jobs>>

\* A program that has not been started.
Idle == [pc |-> "idle"]

ObjIds == 1..Len(objs)

\* ------------------------------------------------------ CatsDogsPredictor
\* predict.py:136-138
is_ready(o) == o.model.built

\* The constructor returned normally: weights loaded, on the device, eval mode.
Loaded(o) == o.pc = "done"

\* Mutant: the device argument is ignored.
select_device_mut(device) == IF cuda THEN "cuda" ELSE "cpu"

\* predict.py:39-41
select_device(device) ==
    IF device # "" THEN device ELSE IF cuda THEN "cuda" ELSE "cpu"

\* predict.py:38-43: the object as __init__ leaves it before _load_model.
\* arg_device is the device the caller asked for ("" for None); parsed tells
\* whether torch.load was called.
NewPredictor(model_path, device, by) ==
    [model_path |-> model_path, device |-> select_device(device),
     model |-> NoModel, config |-> NoConfig, config_set |-> FALSE,
     pc |-> "L48", exc |-> "", by |-> by, arg_device |-> device, parsed |-> FALSE]

Raise(o, exc) == [o EXCEPT !.pc = "raised", !.exc = exc]

\* Mutant: no os.path.exists test; the load goes straight to torch.load.
exists_check_mut(o) == [o EXCEPT !.pc = "L51"]

\* predict.py:48-49
exists_check(o) ==
    IF fs[o.model_path].kind = "missing"
    THEN Raise(o, "FileNotFoundError")
    ELSE [o EXCEPT !.pc = "L51"]

\* predict.py:51: torch.load(path, map_location=device). It opens the file,
\* unpickles it, and maps tensors to the device, which fails for a CUDA
\* device on a host without CUDA.
torch_load(o) ==
    LET a == fs[o.model_path]
        p == [o EXCEPT !.parsed = TRUE]
    IN IF a.kind = "missing" THEN Raise(p, "FileNotFoundError")
       ELSE IF a.kind = "garbage" THEN Raise(p, "UnpicklingError")
       ELSE IF a.kind = "dict" /\ a.sd.present /\ o.device = "cuda" /\ ~cuda
       THEN Raise(p, "RuntimeError")
       ELSE [p EXCEPT !.pc = "L52"]

\* Mutant: checkpoint['config'], which raises when the key is absent.
get_config_mut(o) ==
    IF fs[o.model_path].kind = "nondict"
    THEN Raise(o, "AttributeError")
    ELSE IF ~fs[o.model_path].config.present THEN Raise(o, "KeyError")
    ELSE [o EXCEPT !.config = fs[o.model_path].config, !.config_set = TRUE, !.pc = "L60"]

\* predict.py:52: checkpoint.get('config', {}); a key that is absent gives {}.
get_config(o) ==
    IF fs[o.model_path].kind = "nondict"
    THEN Raise(o, "AttributeError")
    ELSE [o EXCEPT !.config = fs[o.model_path].config, !.config_set = TRUE, !.pc = "L60"]

\* predict.py:55-57
num_classes_of(config) ==
    IF config.num_classes = Absent THEN DEFAULT_NUM_CLASSES ELSE config.num_classes

dropout_of(config) ==
    IF config.dropout = Absent THEN DEFAULT_DROPOUT ELSE config.dropout

\* predict.py:60
build_model(o) ==
    [o EXCEPT !.model = SimpleCNN(num_classes_of(o.config), dropout_of(o.config)),
              !.pc = "L61"]

\* Mutant: load_state_dict(..., strict=False) taking the tensors as they come.
load_state_dict_mut(o) ==
    LET sd == fs[o.model_path].sd IN
    IF ~sd.present THEN Raise(o, "KeyError")
    ELSE [o EXCEPT !.model.weights = <<sd.hidden, sd.out>>, !.model.theta = sd.theta,
                   !.pc = "L62"]

\* predict.py:61: checkpoint['model_state_dict'], then a strict load_state_dict.
load_state_dict(o) ==
    LET sd == fs[o.model_path].sd IN
    IF ~sd.present THEN Raise(o, "KeyError")
    ELSE IF <<sd.hidden, sd.out>> # o.model.arch THEN Raise(o, "RuntimeError")
    ELSE [o EXCEPT !.model.weights = <<sd.hidden, sd.out>>, !.model.theta = sd.theta,
                   !.pc = "L62"]

\* predict.py:62
to_device(o) == [o EXCEPT !.model.dev = o.device, !.pc = "L63"]

\* Mutant: the model is left in the training mode it was built in.
eval_mode_mut(o) == [o EXCEPT !.pc = "done"]

\* predict.py:63-65
eval_mode(o) == [o EXCEPT !.model.training = FALSE, !.pc = "done"]

\* One line of _load_model.
load_step(o) ==
    CASE o.pc = "L48" -> exists_check(o)
      [] o.pc = "L51" -> torch_load(o)
      [] o.pc = "L52" -> get_config(o)
      [] o.pc = "L60" -> build_model(o)
      [] o.pc = "L61" -> load_state_dict(o)
      [] o.pc = "L62" -> to_device(o)
      [] o.pc = "L63" -> eval_mode(o)
      [] OTHER -> o

Running(o) == o.pc \notin {"done", "raised"}

\* Uploads: a content type ("" when the part declares none) and a body.
\* Body 0 is b"not an image"; bodies 1..MaxPix+1 are decodable images.
ContentTypes == {"", "image/jpeg", "text/plain"}
Bodies == 0..(MaxPix + 1)

\* No result dictionary (predict.py:126-134).
NoResult ==
    [ok |-> FALSE, prediction |-> "", exc |-> "", probability |-> 0, confidence |-> 0,
     probabilities |-> [cat |-> 0, dog |-> 0], total |-> 0]

\* What is known of the forward pass of a request: whether it ran, and the
\* gradient mode and the training flag of the model it ran under.
NoForward == [ran |-> FALSE, grad |-> FALSE, training |-> FALSE]

NoCounters == [errors |-> 0, cat |-> 0, dog |-> 0]

\* No response sent yet.
NoResponse == [endpoint |-> "", status |-> 0, flag |-> FALSE, prediction |-> "",
               target |-> None, started |-> FALSE,
               ct |-> "", body |-> 0, result |-> NoResult, fwd |-> NoForward, others |-> 0,
     health |-> "",
               counters |-> NoCounters]

\* --------------------------------------------------------------- actions
Boot ==
    /\ fs \in [Paths -> Artifacts]
    /\ cuda \in BOOLEAN
    /\ predictor = None
    /\ _predictor = None
    /\ ret = None
    /\ objs = <<>>
    /\ startup = "pending"
    /\ e = ""
    /\ stdout = {}
    /\ proc = "running"
    /\ resp = NoResponse
    /\ nreq = 0
    /\ inflight = <<>>
    /\ metrics = NoCounters
    /\ results = [b \in Bodies |-> [outcomes |-> {}, calls |-> 0]]
    /\ pre = Idle /\ net = Idle /\ callers = Idle /\ trainer = Idle /\ validator = Idle

\* The serving process starts with gradient tracking on (the default of
\* torch; nothing in app.py changes it).
Init == Boot /\ grad = TRUE

\* Mutant: the global is assigned the new object before its load has run.
startup_begin_mut ==
    /\ proc = "running" /\ startup = "pending"
    /\ objs' = Append(objs, NewPredictor(DEFAULT_MODEL_PATH, "", "startup"))
    /\ predictor' = Len(objs) + 1
    /\ startup' = "constructing"
    /\ UNCHANGED <<fs, cuda, grad, _predictor, ret, e, stdout, proc, resp, nreq, inflight, metrics>>

\* app.py:113-116: startup_event enters the constructor (predict.py:38-44).
startup_begin ==
    /\ proc = "running" /\ startup = "pending"
    /\ objs' = Append(objs, NewPredictor(DEFAULT_MODEL_PATH, "", "startup"))
    /\ startup' = "constructing"
    /\ UNCHANGED <<fs, cuda, grad, _predictor, ret, predictor, e, stdout, proc, resp, nreq, inflight, metrics>>

\* predict.py:46-65: one line of _load_model of the object under construction.
load_model(i) ==
    /\ proc = "running" /\ Running(objs[i])
    /\ objs' = [objs EXCEPT ![i] = load_step(objs[i])]
    /\ stdout' = IF objs'[i].pc = "done" THEN stdout \cup {"Model loaded"} ELSE stdout
    /\ UNCHANGED <<fs, cuda, grad, _predictor, ret, predictor, startup, e, proc, resp, nreq, inflight, metrics>>

StartupObj == CHOOSE i \in ObjIds : objs[i].by = "startup"

\* app.py:116-117: the constructor returned; the global is assigned.
startup_return ==
    /\ proc = "running" /\ startup = "constructing"
    /\ objs[StartupObj].pc = "done"
    /\ predictor' = StartupObj
    /\ stdout' = stdout \cup {"Model loaded successfully"}
    /\ startup' = "done"
    /\ UNCHANGED <<fs, cuda, grad, _predictor, ret, objs, e, proc, resp, nreq, inflight, metrics>>

\* Mutant: the clause catches the missing file only.
Catches_mut(clause, exc) == exc = "FileNotFoundError"

\* Whether an `except <clause>` catches exc: every exception the load raises
\* derives from Exception.
Catches(clause, exc) == clause = "Exception" \/ clause = exc

\* app.py:118: the constructor raised and `except Exception as e` binds it;
\* an exception the clause does not catch ends the process.
startup_except ==
    /\ proc = "running" /\ startup = "constructing"
    /\ objs[StartupObj].pc = "raised"
    /\ IF Catches("Exception", objs[StartupObj].exc)
       THEN /\ e' = objs[StartupObj].exc
            /\ startup' = "except"
            /\ proc' = proc
       ELSE /\ proc' = "crashed"
            /\ startup' = "done"
            /\ e' = e
    /\ UNCHANGED <<fs, cuda, grad, _predictor, ret, predictor, objs, stdout, resp, nreq, inflight, metrics>>

\* app.py:119-120: the except block prints, clears the global and ends, which
\* unbinds e.
startup_failed ==
    /\ proc = "running" /\ startup = "except"
    /\ stdout' = stdout \cup {"Failed to load model"}
    /\ predictor' = None
    /\ e' = ""
    /\ startup' = "done"
    /\ UNCHANGED <<fs, cuda, grad, _predictor, ret, objs, proc, resp, nreq, inflight, metrics>>

\* Requests are served once startup is over, or without startup having run
\* at all (a TestClient that is not used as a context manager).
Serving == proc = "running" /\ startup \in {"pending", "done"}
MoreRequests == nreq + Len(inflight) < MaxRequests

\* A response: its endpoint, status and body (flag is model_loaded of /health
\* and ready of /ready), the predictor inference ran on (None: it did not
\* run), and whether startup_event was over when it was sent.
Response(endpoint, status, flag, prediction, target) ==
    [endpoint |-> endpoint, status |-> status, flag |-> flag,
     prediction |-> prediction, target |-> target, started |-> startup = "done",
     ct |-> "", body |-> 0, result |-> NoResult, fwd |-> NoForward, others |-> 0,
     health |-> "",
     counters |-> NoCounters]

Send(r) == resp' = r /\ nreq' = nreq + 1

\* Mutant: a model is reported as loaded as soon as startup is over.
health_model_loaded_mut == startup = "done"

\* app.py:140
health_model_loaded == predictor # None /\ is_ready(objs[predictor])

\* app.py:135-143
health_check ==
    /\ Serving /\ MoreRequests
    /\ Send([Response("health", 200, health_model_loaded, "", None)
                EXCEPT !.health = "healthy"])
    /\ UNCHANGED <<fs, cuda, grad, _predictor, ret, predictor, objs, startup, e, stdout, proc, inflight, metrics>>

\* Mutant: every declared content type is taken for an image.
IsImageType_mut(ct) == TRUE

\* Mutant: `and` in place of `or`.
ready_unavailable_mut == predictor # None /\ ~is_ready(objs[predictor])

\* app.py:149
ready_unavailable == predictor = None \/ ~is_ready(objs[predictor])

\* app.py:146-156
readiness_check ==
    /\ Serving /\ MoreRequests
    /\ Send(IF ready_unavailable
                          THEN Response("ready", 503, FALSE, "", None)
                          ELSE Response("ready", 200, TRUE, "", None))
    /\ UNCHANGED <<fs, cuda, grad, _predictor, ret, predictor, objs, startup, e, stdout, proc, inflight, metrics>>

\* ------------------------------------------------------------ inference
\* preprocessing.py:100: Image.open raises on bytes that are no image.
Decodable(body) == body # 0

\* app.py:183: file.content_type.startswith("image/")
IsImageType(ct) == ct = "image/jpeg"

\* cnn.py:90-106 in evaluation mode: the logits, a function of the weights
\* and of the image alone. Weights 0 give every class the same logit; other
\* weights single one class out.
forward(model, body) ==
    [i \in 1..model.arch[2] |->
        IF model.theta # 0 /\ i - 1 = (model.theta + body) % model.arch[2]
        THEN 1 ELSE 0]

\* Mutant: the logits depend on how many requests were served before.
forward_outcomes_mut(model, body) ==
    {[i \in 1..model.arch[2] |->
        IF i - 1 = (model.theta + body + nreq) % model.arch[2] THEN 1 ELSE 0]}

\* cnn.py:98-104: self.model(image_tensor). In training mode Dropout zeroes
\* random activations and BatchNorm normalises with batch statistics, so the
\* logits are not determined by weights and image.
forward_outcomes(model, body) ==
    IF model.training
    THEN [1..model.arch[2] -> {0, 1}]
    ELSE {forward(model, body)}

RECURSIVE Total(_)
Total(v) == IF Len(v) = 0 THEN 0 ELSE v[Len(v)] + Total(SubSeq(v, 1, Len(v) - 1))

\* predict.py:117: F.softmax(logits, dim=1). A probability is the pair of
\* softmax(v)[i] and Total(softmax(v)): strictly increasing in the logit,
\* positive, and summing to one.
softmax(v) == [i \in 1..Len(v) |-> 2 ^ v[i]]

\* Mutant: the index of the first of the smallest entries.
argmax_mut(v) ==
    (CHOOSE i \in 1..Len(v) :
        /\ \A j \in 1..Len(v) : v[j] >= v[i]
        /\ \A j \in 1..(i - 1) : v[j] > v[i]) - 1

\* predict.py:120: torch.argmax, the 0-based index of the first of the
\* largest entries.
argmax(v) ==
    (CHOOSE i \in 1..Len(v) :
        /\ \A j \in 1..Len(v) : v[j] <= v[i]
        /\ \A j \in 1..(i - 1) : v[j] < v[i]) - 1

\* cnn.py:90-106 and predict.py:120: the predicted index in evaluation mode.
forward_argmax(model, body) == argmax(softmax(forward(model, body)))

\* predict.py:116-134: the result dictionary, or the IndexError of
\* CLASSES[predicted_idx] (an index beyond the two names) and of probs[1]
\* (a one-class head).
predict_result(model, logits) ==
    LET probs == softmax(logits)
        predicted_idx == argmax(probs)
    IN IF predicted_idx + 1 > Len(CLASSES) THEN [NoResult EXCEPT !.exc = "IndexError"]
       ELSE IF Len(probs) < 2 THEN [NoResult EXCEPT !.exc = "IndexError"]
       ELSE [ok |-> TRUE, prediction |-> CLASSES[predicted_idx + 1], exc |-> "",
             probability |-> probs[predicted_idx + 1],
             confidence |-> probs[predicted_idx + 1],
             probabilities |-> [cat |-> probs[1], dog |-> probs[2]],
             total |-> Total(probs)]

\* predict.py:67-84: logits is what the forward pass of this call computes.
predict_from_bytes(o, body, logits) ==
    IF ~Decodable(body)
    THEN [NoResult EXCEPT !.exc = "UnidentifiedImageError"]
    ELSE predict_result(o.model, logits)

\* torch.no_grad().__enter__ (predict.py:115): gradient tracking is off
\* inside the block whatever it was before.
no_grad_enter(prev) == FALSE

\* Mutant: the previous mode is restored on the normal exit only.
no_grad_exit_mut(prev, raised) == IF raised THEN no_grad_enter(prev) ELSE prev

\* torch.no_grad().__exit__ (predict.py:115): the mode saved on entry is
\* restored, on a return and on an exception alike.
no_grad_exit(prev, raised) == prev

\* app.py:177
predict_unavailable == predictor = None \/ ~is_ready(objs[predictor])

Inc(m, field) == [m EXCEPT ![field] = @ + 1]

\* The response to an upload whose body was read.
To(up, r) == [r EXCEPT !.ct = up.ct, !.body = up.body]

\* The response of /predict to an upload it turns away before the read
\* (app.py:177-186): the body is never looked at.
Rejected(ct, status) == [Response("predict", status, FALSE, "", None) EXCEPT !.ct = ct]

\* Mutant: the content type is checked before the readiness of the predictor.
predict_begin_mut(ct, body) ==
    /\ Serving /\ MoreRequests
    /\ LET up == [ct |-> ct, body |-> body] IN
       IF ct = ""
       THEN /\ Send(Rejected(ct, 500))
            /\ UNCHANGED <<metrics, inflight>>
       ELSE IF ~IsImageType(ct)
       THEN /\ metrics' = Inc(metrics, "errors")
            /\ Send(Rejected(ct, 400))
            /\ UNCHANGED inflight
       ELSE IF predict_unavailable
       THEN /\ metrics' = Inc(metrics, "errors")
            /\ Send(Rejected(ct, 503))
            /\ UNCHANGED inflight
       ELSE /\ Len(inflight) < MaxInFlight
            /\ inflight' = Append(inflight, up)
            /\ UNCHANGED <<metrics, resp, nreq>>
    /\ UNCHANGED <<fs, cuda, grad, _predictor, ret, predictor, objs, startup, e, stdout, proc>>

\* app.py:177-191: the checks of /predict up to `await file.read()`. A part
\* without content type makes line 183 raise outside the try block: the
\* framework answers 500 and no counter moves.
predict_begin(ct, body) ==
    /\ Serving /\ MoreRequests
    /\ LET up == [ct |-> ct, body |-> body] IN
       IF predict_unavailable
       THEN /\ metrics' = Inc(metrics, "errors")
            /\ Send(Rejected(ct, 503))
            /\ UNCHANGED inflight
       ELSE IF ct = ""
       THEN /\ Send(Rejected(ct, 500))
            /\ UNCHANGED <<metrics, inflight>>
       ELSE IF ~IsImageType(ct)
       THEN /\ metrics' = Inc(metrics, "errors")
            /\ Send(Rejected(ct, 400))
            /\ UNCHANGED inflight
       ELSE /\ Len(inflight) < MaxInFlight
            /\ inflight' = Append(inflight, up)
            /\ UNCHANGED <<metrics, resp, nreq>>
    /\ UNCHANGED <<fs, cuda, grad, _predictor, ret, predictor, objs, startup, e, stdout, proc>>

RemoveAt(s, k) == [j \in 1..(Len(s) - 1) |-> IF j < k THEN s[j] ELSE s[j + 1]]

\* predict.py:67-134 as one synchronous call on predictor o: every outcome
\* the call can have, with what is known of its forward pass (whether it ran,
\* the gradient mode and the training flag it ran under) and the gradient
\* mode the call leaves behind. Decoding (predict.py:81) comes before the
\* no_grad block (predict.py:115).
Inference(o, body) ==
    {[result |-> predict_from_bytes(o, body, logits),
      fwd |-> IF Decodable(body)
              THEN [ran |-> TRUE, grad |-> no_grad_enter(grad), training |-> o.model.training]
              ELSE NoForward,
      grad |-> IF Decodable(body)
               THEN no_grad_exit(grad, ~predict_from_bytes(o, body, logits).ok)
               ELSE grad] : logits \in forward_outcomes(o.model, body)}

\* The response of /predict after inference (app.py:201-222); others counts
\* the other requests suspended at their read while this one ran.
Outcome(up, out) ==
    [To(up, Response("predict", IF out.result.ok THEN 200 ELSE 500, out.result.ok,
                     out.result.prediction, predictor))
        EXCEPT !.result = out.result, !.fwd = out.fwd, !.others = Len(inflight) - 1]

\* Mutant: a failed inference drops the model of the predictor.
predict_finish_mut(k) ==
    /\ proc = "running"
    /\ \E out \in Inference(objs[predictor], inflight[k].body) :
            /\ metrics' = Inc(metrics, IF out.result.ok THEN out.result.prediction ELSE "errors")
            /\ Send(Outcome(inflight[k], out))
            /\ grad' = out.grad
            /\ objs' = IF out.result.ok THEN objs
                       ELSE [objs EXCEPT ![predictor].model.built = FALSE]
    /\ inflight' = RemoveAt(inflight, k)
    /\ UNCHANGED <<fs, cuda, _predictor, ret, predictor, startup, e, stdout, proc>>

\* Mutant: the image of the request is kept in a buffer that concurrent
\* requests share, so inference runs on the oldest upload still in flight.
predict_finish_shared(k) ==
    /\ proc = "running"
    /\ \E out \in Inference(objs[predictor], inflight[1].body) :
            /\ metrics' = Inc(metrics, IF out.result.ok THEN out.result.prediction ELSE "errors")
            /\ Send(Outcome(inflight[k], out))
            /\ grad' = out.grad
    /\ inflight' = RemoveAt(inflight, k)
    /\ UNCHANGED <<fs, cuda, _predictor, ret, predictor, objs, startup, e, stdout, proc>>

\* app.py:192-222: the read returned; inference and the response. The call
\* of predict_from_bytes is synchronous: no other request runs between its
\* first and its last line.
predict_finish(k) ==
    /\ proc = "running"
    /\ \E out \in Inference(objs[predictor], inflight[k].body) :
            /\ metrics' = Inc(metrics, IF out.result.ok THEN out.result.prediction ELSE "errors")
            /\ Send(Outcome(inflight[k], out))
            /\ grad' = out.grad
    /\ inflight' = RemoveAt(inflight, k)
    /\ UNCHANGED <<fs, cuda, _predictor, ret, predictor, objs, startup, e, stdout, proc>>

\* app.py:159-165: GET /metrics returns the current values of the counters.
metrics_endpoint ==
    /\ Serving /\ MoreRequests
    /\ Send([Response("metrics", 200, FALSE, "", None) EXCEPT !.counters = metrics])
    /\ UNCHANGED <<fs, cuda, grad, _predictor, ret, predictor, objs, startup, e, stdout, proc, inflight, metrics>>

\* predict.py:44-65 run to its end: the constructor as one call.
RECURSIVE run_load(_)
run_load(o) == IF Running(o) THEN run_load(load_step(o)) ELSE o

\* predict.py:145-150: one whole call. A constructor that raises leaves the
\* global unset and the exception reaches the caller.
get_predictor(model_path) ==
    /\ proc = "running"
    /\ IF _predictor = None
       THEN /\ Cardinality({i \in ObjIds : objs[i].by = "get_predictor"}) < MaxLazy
            /\ LET o == run_load(NewPredictor(model_path, "", "get_predictor")) IN
               /\ objs' = Append(objs, o)
               /\ _predictor' = IF o.pc = "done" THEN Len(objs) + 1 ELSE None
               /\ ret' = IF o.pc = "done" THEN Len(objs) + 1 ELSE None
               /\ stdout' = IF o.pc = "done" THEN stdout \cup {"Model loaded"} ELSE stdout
       ELSE /\ ret' = _predictor
            /\ UNCHANGED <<_predictor, objs, stdout>>
    /\ UNCHANGED <<fs, cuda, grad, predictor, startup, e, proc, resp, nreq, inflight, metrics>>

Serve ==
    \/ startup_begin
    \/ \E i \in ObjIds : load_model(i)
    \/ startup_return
    \/ startup_except
    \/ startup_failed
    \/ health_check
    \/ readiness_check
    \/ \E ct \in ContentTypes, body \in Bodies : predict_begin(ct, body)
    \/ \E k \in 1..Len(inflight) : predict_finish(k)
    \/ \E path \in Paths : get_predictor(path)
    \/ metrics_endpoint

\* The serving process; the history of outcomes is not kept here.
Next == Serve /\ UNCHANGED results /\ UNCHANGED jobs

Spec == Init /\ [][Next]_vars

\* ------------------------------------------------------- the library caller
\* A program that uses predict.py directly: it constructs predictors with a
\* device of its choice and calls predict_from_bytes on those whose
\* constructor returned, inside whatever gradient mode it is in.
Devices == {"", "cpu", "cuda"}

\* predict.py:26-44: CatsDogsPredictor(model_path, device) as one call.
construct(model_path, device) ==
    /\ Len(objs) < MaxBuilt
    /\ LET o == run_load(NewPredictor(model_path, device, "caller")) IN
       /\ objs' = Append(objs, o)
       /\ stdout' = IF o.pc = "done" THEN stdout \cup {"Model loaded"} ELSE stdout
    /\ UNCHANGED <<fs, cuda, grad, predictor, _predictor, ret, startup, e, proc, resp, nreq, inflight, metrics>>

\* What a call of predict_from_bytes on predictor i gave: its result, or the
\* exception it raised (status is not used).
Returned(i, body, out) ==
    [Response("predict_from_bytes", 0, out.result.ok, out.result.prediction, i)
        EXCEPT !.body = body, !.result = out.result, !.fwd = out.fwd]

\* predict.py:67-84: predictor.predict_from_bytes(body) called directly.
predict_call(i, body) ==
    /\ Loaded(objs[i]) /\ nreq < MaxRequests
    /\ \E out \in Inference(objs[i], body) :
            /\ Send(Returned(i, body, out))
            /\ grad' = out.grad
    /\ UNCHANGED <<fs, cuda, predictor, _predictor, ret, objs, startup, e, stdout, proc, inflight, metrics>>

\* The history of outcomes: what every inference so far gave for each body.
Record ==
    results' = IF nreq' = nreq + 1 /\ resp'.target # None
               THEN [results EXCEPT ![resp'.body] =
                        [outcomes |-> @.outcomes \cup {resp'.result},
                         calls |-> @.calls + 1]]
               ELSE results

\* The caller may be inside a no_grad block of its own.
InitLib == Boot /\ grad \in BOOLEAN

Call ==
    \/ \E path \in Paths, device \in Devices : construct(path, device)
    \/ \E i \in ObjIds, body \in Bodies : predict_call(i, body)

NextLib == Call /\ Record /\ UNCHANGED jobs

SpecLib == InitLib /\ [][NextLib]_vars
\* The server and the library at rest, for the programs that run beside them.
Quiet ==
    /\ fs = [p \in Paths |-> [kind |-> "missing", config |-> NoConfig, sd |-> NoStateDict]]
    /\ cuda = FALSE
    /\ predictor = None
    /\ _predictor = None
    /\ ret = None
    /\ objs = <<>>
    /\ startup = "pending"
    /\ e = ""
    /\ stdout = {}
    /\ proc = "running"
    /\ resp = NoResponse
    /\ nreq = 0
    /\ inflight = <<>>
    /\ metrics = NoCounters
    /\ grad = TRUE
    /\ results = [b \in Bodies |-> [outcomes |-> {}, calls |-> 0]]

\* ----------------------------------------------------------- preprocessing
\* A decoded image: its PIL mode, width and height, and px, the operations
\* its pixels went through (name and random draw of each).
Modes == {"L", "RGB", "RGBA"}
Channels(mode) == IF mode = "L" THEN 1 ELSE IF mode = "RGB" THEN 3 ELSE 4

\* preprocessing.py:32-33, 52-53: mean and std of Normalize, in thousandths.
IMAGENET_MEAN == <<485, 456, 406>>
IMAGENET_STD == <<229, 224, 225>>

\* preprocessing.py:15-35. Probabilities and jitter ranges are in hundredths.
get_train_transforms(image_size) ==
    << [name |-> "Resize", args |-> <<image_size, image_size>>],
       [name |-> "RandomHorizontalFlip", args |-> <<50>>],
       [name |-> "RandomRotation", args |-> <<15>>],
       [name |-> "ColorJitter", args |-> <<20, 20, 20>>],
       [name |-> "ToTensor", args |-> <<>>],
       [name |-> "Normalize", args |-> IMAGENET_MEAN \o IMAGENET_STD] >>

\* Mutant: validation uses the training pipeline.
get_val_transforms_mut(image_size) == get_train_transforms(image_size)

\* preprocessing.py:38-55
get_val_transforms(image_size) ==
    << [name |-> "Resize", args |-> <<image_size, image_size>>],
       [name |-> "ToTensor", args |-> <<>>],
       [name |-> "Normalize", args |-> IMAGENET_MEAN \o IMAGENET_STD] >>

\* What a transform draws at random when it is applied: whether to flip,
\* the angle, the brightness factor in hundredths; 0 for a transform that
\* draws nothing.
Draws(t) ==
    IF t.name = "RandomHorizontalFlip" THEN {0, 1}
    ELSE IF t.name = "RandomRotation" THEN {0 - t.args[1], 0, t.args[1]}
    ELSE IF t.name = "ColorJitter" THEN {100 - t.args[1], 100 + t.args[1]}
    ELSE {0}

\* Mutant: Resize(image_size) with one number, which scales the shorter side
\* to image_size and keeps the aspect ratio.
resize_output_mut(args, w, h) ==
    IF w <= h THEN <<(args[1] * h) \div w, args[1]>>
    ELSE <<args[1], (args[1] * w) \div h>>

\* transforms.Resize((h, w)) (preprocessing.py:26, 48): the output has the
\* height and width asked for, whatever the source was.
resize_output(args, w, h) == <<args[1], args[2]>>

\* One transform applied to an image with random draw d. Resize, flip,
\* rotation (expand off) and jitter work on the PIL image; ToTensor gives a
\* tensor of shape (channels, height, width); Normalize keeps the shape.
apply(t, img, d) ==
    LET px == Append(img.px, [name |-> t.name, draw |-> d]) IN
    IF t.name = "Resize"
    THEN [img EXCEPT !.h = resize_output(t.args, img.w, img.h)[1],
                     !.w = resize_output(t.args, img.w, img.h)[2], !.px = px]
    ELSE IF t.name = "ToTensor"
    THEN [img EXCEPT !.kind = "tensor", !.shape = <<Channels(img.mode), img.h, img.w>>,
                     !.px = px]
    ELSE [img EXCEPT !.px = px]

\* The callers of the pipelines: preprocess_image_bytes (preprocessing.py:84-103),
\* preprocess_image (58-81), predict_from_bytes (predict.py:67-84, through
\* preprocess_image_bytes) and predict_from_file (predict.py:86-103).
Entries == {"preprocess_image_bytes", "preprocess_image", "predict_from_bytes", "predict_from_file"}

PreJobs ==
    {[pc |-> "open", entry |-> en, for_training |-> ft, size |-> sz,
      img |-> [kind |-> "pil", mode |-> m, w |-> w, h |-> h, shape |-> <<>>, px |-> <<>>],
      source |-> <<m, w, h>>, transform |-> <<>>, batch |-> <<>>] :
        en \in Entries, ft \in BOOLEAN, sz \in 1..MaxSize,
        m \in Modes, w \in 1..MaxSide, h \in 1..MaxSide}

\* A valid image of any mode and size (source keeps what was passed in), a
\* target size, and a caller; only
\* preprocess_image has the for_training argument.
InitPre ==
    /\ Quiet
    /\ pre \in {j \in PreJobs : j.for_training => j.entry = "preprocess_image"}
    /\ net = Idle /\ callers = Idle /\ trainer = Idle /\ validator = Idle

\* preprocessing.py:74, 100 and predict.py:100: Image.open(...).convert('RGB')
pre_open ==
    /\ pre.pc = "open"
    /\ pre' = [pre EXCEPT !.pc = "compose", !.img.mode = "RGB"]

\* preprocessing.py:76-79, 101 and predict.py:101: the pipeline is chosen.
pre_compose ==
    /\ pre.pc = "compose"
    /\ pre' = [pre EXCEPT !.pc = "apply",
                          !.transform = IF pre.entry = "preprocess_image" /\ pre.for_training
                                        THEN get_train_transforms(pre.size)
                                        ELSE get_val_transforms(pre.size)]

\* Compose.__call__: the next transform of the pipeline is applied.
pre_apply ==
    /\ pre.pc = "apply" /\ Len(pre.transform) > 0
    /\ \E d \in Draws(Head(pre.transform)) :
         pre' = [pre EXCEPT !.img = apply(Head(pre.transform), pre.img, d),
                            !.transform = Tail(pre.transform)]

\* transform(image) returned: preprocessing.py:81, 103 return the tensor;
\* predict.py:82, 101 add the batch dimension.
pre_return ==
    /\ pre.pc = "apply" /\ Len(pre.transform) = 0
    /\ pre' = [pre EXCEPT !.pc = "done",
                          !.batch = IF pre.entry \in {"predict_from_bytes", "predict_from_file"}
                                    THEN <<1>> \o pre.img.shape ELSE <<>>]

NextPre ==
    /\ \/ pre_open
       \/ pre_compose
       \/ pre_apply
       \/ pre_return
    /\ UNCHANGED serving
    /\ UNCHANGED <<net, callers, trainer, validator>>

SpecPre == InitPre /\ [][NextPre]_vars

\* ---------------------------------------------------------------- SimpleCNN
\* cnn.py:33-71: the modules of SimpleCNN in the order forward calls them
\* (conv1..conv4, global_pool, fc), each a sequence of layers.
ConvBlock(cin, cout) ==
    << [op |-> "Conv2d", a |-> cin, b |-> cout, k |-> 3, p |-> 1],
       [op |-> "BatchNorm2d", a |-> cout, b |-> cout, k |-> 0, p |-> 0],
       [op |-> "ReLU", a |-> 0, b |-> 0, k |-> 0, p |-> 0],
       [op |-> "MaxPool2d", a |-> 0, b |-> 0, k |-> 2, p |-> 2] >>

Modules(num_classes) ==
    << ConvBlock(3, 32), ConvBlock(32, 64), ConvBlock(64, 128), ConvBlock(128, 256),
       << [op |-> "AdaptiveAvgPool2d", a |-> 1, b |-> 1, k |-> 0, p |-> 0] >>,
       << [op |-> "Flatten", a |-> 0, b |-> 0, k |-> 0, p |-> 0],
          [op |-> "Linear", a |-> 256, b |-> HIDDEN, k |-> 0, p |-> 0],
          [op |-> "ReLU", a |-> 0, b |-> 0, k |-> 0, p |-> 0],
          [op |-> "Dropout", a |-> 0, b |-> 0, k |-> 0, p |-> 0],
          [op |-> "Linear", a |-> HIDDEN, b |-> num_classes, k |-> 0, p |-> 0] >> >>

\* Mutant: the pooling window moves by one pixel.
pool_output_mut(n, k, stride) == n - k + 1

\* nn.MaxPool2d(kernel_size=k, stride=stride) on a side of n pixels.
pool_output(n, k, stride) == (n - k) \div stride + 1

\* The shape a layer gives for input shape x, or <<>> when the layer rejects
\* the input (wrong number of channels or features).
layer_output(l, x) ==
    IF l.op = "Conv2d"
    THEN IF Len(x) = 4 /\ x[2] = l.a
         THEN <<x[1], l.b, x[3] + 2 * l.p - l.k + 1, x[4] + 2 * l.p - l.k + 1>>
         ELSE <<>>
    ELSE IF l.op = "BatchNorm2d"
    THEN IF Len(x) = 4 /\ x[2] = l.a THEN x ELSE <<>>
    ELSE IF l.op = "MaxPool2d"
    THEN <<x[1], x[2], pool_output(x[3], l.k, l.p), pool_output(x[4], l.k, l.p)>>
    ELSE IF l.op = "AdaptiveAvgPool2d"
    THEN <<x[1], x[2], l.a, l.b>>
    ELSE IF l.op = "Flatten"
    THEN <<x[1], x[2] * x[3] * x[4]>>
    ELSE IF l.op = "Linear"
    THEN IF x[Len(x)] = l.a THEN <<x[1], l.b>> ELSE <<>>
    ELSE x

\* A model of num_classes outputs and a batch of b images of side x side
\* pixels; at is the module and the layer in it that runs next, and trace
\* the shapes the layers gave so far.
NetJobs ==
    {[pc |-> "forward", num_classes |-> n, batch |-> b, side |-> sd,
      x |-> <<b, 3, sd, sd>>, at |-> <<1, 1>>, trace |-> <<>>] :
        n \in {2, 5, 10}, b \in 1..MaxBatch, sd \in {INPUT_SIZE, INPUT_SIZE \div 2}}

InitNet ==
    /\ Quiet
    /\ net \in NetJobs
    /\ pre = Idle /\ callers = Idle /\ trainer = Idle /\ validator = Idle

\* cnn.py:100-105: the next layer of the module forward is in.
net_layer ==
    /\ net.pc = "forward" /\ net.at[1] <= Len(Modules(net.num_classes))
    /\ LET m == Modules(net.num_classes)[net.at[1]]
           y == layer_output(m[net.at[2]], net.x)
       IN net' = IF y = <<>>
                 THEN [net EXCEPT !.pc = "raised"]
                 ELSE [net EXCEPT !.x = y, !.trace = Append(@, y),
                                  !.at = IF net.at[2] < Len(m)
                                         THEN <<net.at[1], net.at[2] + 1>>
                                         ELSE <<net.at[1] + 1, 1>>]

\* cnn.py:106: return x
net_return ==
    /\ net.pc = "forward" /\ net.at[1] > Len(Modules(net.num_classes))
    /\ net' = [net EXCEPT !.pc = "done"]

NextNet ==
    /\ \/ net_layer
       \/ net_return
    /\ UNCHANGED serving
    /\ UNCHANGED <<pre, callers, trainer, validator>>

SpecNet == InitNet /\ [][NextNet]_vars

\* ------------------------------------------------------------ get_predictor
\* Callers of get_predictor, each a thread that makes its calls one after
\* the other, with a path of its choice each time.
Threads == 1..MaxThreads
LazyPaths == {DEFAULT_MODEL_PATH, "models/other.pt"}

\* What the paths may hold: nothing, garbage, a mapping without
\* model_state_dict, or a checkpoint of the default architecture.
LazyArtifacts ==
    {a \in Artifacts :
        \/ a.kind \in {"missing", "garbage"}
        \/ /\ a.kind = "dict" /\ ~a.config.present
           /\ (a.sd.present => <<a.sd.hidden, a.sd.out, a.sd.theta>>
                                 = <<HIDDEN, DEFAULT_NUM_CLASSES, 0>>)}

\* A thread outside get_predictor: the path of its last call, what that call
\* returned (None: nothing yet, or it raised) and the exception it raised.
NoCall == [pc |-> "idle", path |-> "", obj |-> None, ret |-> None, exc |-> "", calls |-> 0]

InitLazy ==
    /\ fs \in [LazyPaths -> LazyArtifacts]
    /\ cuda = FALSE
    /\ predictor = None
    /\ _predictor = None
    /\ ret = None
    /\ objs = <<>>
    /\ startup = "pending"
    /\ e = ""
    /\ stdout = {}
    /\ proc = "running"
    /\ resp = NoResponse
    /\ nreq = 0
    /\ inflight = <<>>
    /\ metrics = NoCounters
    /\ grad = TRUE
    /\ results = [b \in Bodies |-> [outcomes |-> {}, calls |-> 0]]
    /\ callers = [t \in Threads |-> NoCall]
    /\ pre = Idle /\ net = Idle /\ trainer = Idle /\ validator = Idle

\* predict.py:145: thread t calls get_predictor(model_path).
gp_call(t, model_path) ==
    /\ callers[t].pc = "idle" /\ callers[t].calls < MaxCalls
    /\ callers' = [callers EXCEPT ![t] =
                      [pc |-> "L148", path |-> model_path, obj |-> None, ret |-> None,
                       exc |-> "", calls |-> @.calls + 1]]
    /\ UNCHANGED <<objs, _predictor, stdout>>

\* Mutant: a call with another path than the one of the instance loads again.
gp_check_mut(t) ==
    /\ callers[t].pc = "L148"
    /\ callers' = [callers EXCEPT ![t].pc =
                      IF _predictor = None \/ objs[_predictor].model_path # callers[t].path
                      THEN "L149" ELSE "L150"]
    /\ UNCHANGED <<objs, _predictor, stdout>>

\* predict.py:148: if _predictor is None
gp_check(t) ==
    /\ callers[t].pc = "L148"
    /\ callers' = [callers EXCEPT ![t].pc = IF _predictor = None THEN "L149" ELSE "L150"]
    /\ UNCHANGED <<objs, _predictor, stdout>>

\* predict.py:149, right-hand side: CatsDogsPredictor(model_path=model_path)
\* runs; when it raises, the exception leaves get_predictor.
gp_construct(t) ==
    /\ callers[t].pc = "L149"
    /\ LET o == run_load(NewPredictor(callers[t].path, "", "get_predictor")) IN
       /\ objs' = Append(objs, o)
       /\ stdout' = IF o.pc = "done" THEN stdout \cup {"Model loaded"} ELSE stdout
       /\ callers' = [callers EXCEPT ![t] =
                         IF o.pc = "done"
                         THEN [@ EXCEPT !.pc = "assign", !.obj = Len(objs) + 1]
                         ELSE [@ EXCEPT !.pc = "idle", !.exc = o.exc]]
    /\ UNCHANGED _predictor

\* predict.py:149, the assignment to the global.
gp_assign(t) ==
    /\ callers[t].pc = "assign"
    /\ _predictor' = callers[t].obj
    /\ callers' = [callers EXCEPT ![t].pc = "L150"]
    /\ UNCHANGED <<objs, stdout>>

\* predict.py:150: return _predictor
gp_return(t) ==
    /\ callers[t].pc = "L150"
    /\ callers' = [callers EXCEPT ![t] = [@ EXCEPT !.pc = "idle", !.ret = _predictor]]
    /\ UNCHANGED <<objs, _predictor, stdout>>

\* What get_predictor never touches.
LazyFrame ==
    UNCHANGED <<fs, cuda, predictor, ret, startup, e, proc, resp, nreq, inflight, metrics,
                grad, results, pre, net, trainer, validator>>

\* Threads that call get_predictor at the same time.
NextLazy ==
    /\ \E t \in Threads :
         \/ \E path \in LazyPaths : gp_call(t, path)
         \/ gp_check(t)
         \/ gp_construct(t)
         \/ gp_assign(t)
         \/ gp_return(t)
    /\ LazyFrame

SpecLazy == InitLazy /\ [][NextLazy]_vars

\* Sequential use: one thread.
NextSeq ==
    /\ \/ \E path \in LazyPaths : gp_call(1, path)
       \/ gp_check(1)
       \/ gp_construct(1)
       \/ gp_assign(1)
       \/ gp_return(1)
    /\ LazyFrame

SpecSeq == InitLazy /\ [][NextSeq]_vars

\* ------------------------------------------------------------------ training
\* Accuracies, in hundredths.
AccLevels == {0, 49, 50, 51, 100}

\* A checkpoint file: the keys of its mapping, the value of val_accuracy (0
\* when the key is absent) and whether model_state_dict fits SimpleCNN() with
\* its default arguments.
NoFile == [kind |-> "missing", keys |-> {}, val_accuracy |-> 0, fits |-> FALSE]

\* train.py:105-112: the mapping save_model writes for a model of
\* num_classes outputs: model_state_dict and config, nothing else.
save_model(num_classes) ==
    [kind |-> "dict", keys |-> {"model_state_dict", "config"}, val_accuracy |-> 0,
     fits |-> num_classes = DEFAULT_NUM_CLASSES]

\* Mutant: an epoch that equals the best so far counts as an improvement.
improves_mut(val_acc, best_val_acc) == val_acc >= best_val_acc

\* train.py:246: if val_acc > best_val_acc
improves(val_acc, best_val_acc) == val_acc > best_val_acc

\* train.py:198-199 with a config of some number of epochs and classes; file
\* is what api.model_path holds and written_in the epoch (1-based) of the last
\* save_model call, 0 when there was none.
TrainJobs ==
    {[pc |-> "loop", epochs |-> n, num_classes |-> c, epoch |-> 0, val_acc |-> 0,
      val_accs |-> <<>>, best_val_acc |-> 0, best_epoch |-> 0,
      file |-> NoFile, written_in |-> 0] : n \in 0..MaxEpochs, c \in {2, 3}}

InitTrain ==
    /\ Quiet
    /\ trainer \in TrainJobs
    /\ pre = Idle /\ net = Idle /\ callers = Idle /\ validator = Idle

\* train.py:206-243: one epoch is trained and validated; validate returns an
\* accuracy, which joins the history.
tr_epoch ==
    /\ trainer.pc = "loop" /\ trainer.epoch < trainer.epochs
    /\ \E val_acc \in AccLevels :
         trainer' = [trainer EXCEPT !.pc = "compare", !.val_acc = val_acc,
                                    !.val_accs = Append(@, val_acc)]

\* train.py:245-250: the best model is saved; the loop goes to the next epoch.
tr_save_best ==
    /\ trainer.pc = "compare"
    /\ trainer' = IF improves(trainer.val_acc, trainer.best_val_acc)
                  THEN [trainer EXCEPT !.pc = "loop", !.epoch = @ + 1,
                                       !.best_val_acc = trainer.val_acc,
                                       !.best_epoch = trainer.epoch + 1,
                                       !.file = save_model(trainer.num_classes),
                                       !.written_in = trainer.epoch + 1]
                  ELSE [trainer EXCEPT !.pc = "loop", !.epoch = @ + 1]

\* train.py:206: range(epochs) is exhausted.
tr_finish ==
    /\ trainer.pc = "loop" /\ trainer.epoch = trainer.epochs
    /\ trainer' = [trainer EXCEPT !.pc = "done"]

NextTrain ==
    /\ \/ tr_epoch
       \/ tr_save_best
       \/ tr_finish
    /\ UNCHANGED serving
    /\ UNCHANGED <<pre, net, callers, validator>>

SpecTrain == InitTrain /\ [][NextTrain]_vars

\* ---------------------------------------------------------------- validation
CheckpointKeys == {"model_state_dict", "config", "epoch", "val_accuracy"}

\* What validate_model may be pointed at: no file, a file torch.load cannot
\* parse, a pickled object that is no mapping, or a mapping with any of the
\* keys and any val_accuracy. Everything save_model writes is among them.
ValCheckpoints ==
    {NoFile, [NoFile EXCEPT !.kind = "garbage"], [NoFile EXCEPT !.kind = "nondict"]}
    \cup {c \in [kind : {"dict"}, keys : SUBSET CheckpointKeys,
                 val_accuracy : AccLevels, fits : BOOLEAN] :
            /\ "val_accuracy" \notin c.keys => c.val_accuracy = 0
            /\ c.fits => "model_state_dict" \in c.keys}

\* validate_model(model_path) on a path that holds checkpoint c; status is
\* the exit status of the script once pc is "exit".
ValJobs ==
    {[pc |-> "load", ckpt |-> c, val_acc |-> 0, passed |-> FALSE,
      inference |-> FALSE, status |-> 0, exc |-> ""] : c \in ValCheckpoints}

InitValidate ==
    /\ Quiet
    /\ validator \in ValJobs
    /\ pre = Idle /\ net = Idle /\ callers = Idle /\ trainer = Idle

\* sys.exit(1), or an exception nobody catches: the exit status is 1.
Exit1(v, exc) == [v EXCEPT !.pc = "exit", !.status = 1, !.exc = exc]

\* validate_model.py:25-30
va_load ==
    /\ validator.pc = "load"
    /\ validator' = IF validator.ckpt.kind \in {"missing", "garbage"}
                    THEN Exit1(validator, "SystemExit")
                    ELSE [validator EXCEPT !.pc = "metadata"]

\* validate_model.py:33-36: checkpoint.get('val_accuracy', 0)
va_metadata ==
    /\ validator.pc = "metadata"
    /\ validator' = IF validator.ckpt.kind # "dict"
                    THEN Exit1(validator, "AttributeError")
                    ELSE [validator EXCEPT !.pc = "gate",
                             !.val_acc = IF "val_accuracy" \in validator.ckpt.keys
                                         THEN validator.ckpt.val_accuracy ELSE 0]

\* Mutant: an accuracy of exactly 0.50 passes.
gate_fails_mut(val_acc) == val_acc < ACCURACY_GATE

\* validate_model.py:39: if val_acc <= 0.50
gate_fails(val_acc) == val_acc <= ACCURACY_GATE

\* validate_model.py:39-42
va_gate ==
    /\ validator.pc = "gate"
    /\ validator' = IF gate_fails(validator.val_acc)
                    THEN Exit1(validator, "SystemExit")
                    ELSE [validator EXCEPT !.pc = "inference", !.passed = TRUE]

\* validate_model.py:45-71: the inference test on SimpleCNN() with the
\* state dict of the checkpoint; the script ends with status 0 when it passes.
va_inference ==
    /\ validator.pc = "inference"
    /\ validator' = IF validator.ckpt.fits
                    THEN [validator EXCEPT !.pc = "exit", !.status = 0, !.inference = TRUE]
                    ELSE [Exit1(validator, "SystemExit") EXCEPT !.inference = TRUE]

NextValidate ==
    /\ \/ va_load
       \/ va_metadata
       \/ va_gate
       \/ va_inference
    /\ UNCHANGED serving
    /\ UNCHANGED <<pre, net, callers, trainer>>

SpecValidate == InitValidate /\ [][NextValidate]_vars

\* ================================================================ claims
\* The artifact a predictor was constructed from (the file system is fixed).
ArtifactOf(o) == fs[o.model_path]
StartupFailed == \E i \in ObjIds : objs[i].by = "startup" /\ objs[i].pc = "raised"
\* The architecture the embedded config of an artifact asks for.
ArchOf(a) == <<HIDDEN, num_classes_of(a.config)>>
\* A step that sends a response.
Sent == nreq' = nreq + 1

\* C1: is_ready() is true of a predictor exactly when its load has finished
\* (weights loaded, moved to the device, switched to evaluation mode): false
\* before and during the load, true right after a successful one.
C1_ReadyIffLoadFinished ==
    \A i \in ObjIds : is_ready(objs[i]) <=> Loaded(objs[i])

\* C2: a /predict request that finds the predictor absent or not ready is
\* answered 503 without inference and is not admitted to the read; inference
\* only ever runs on the published predictor, whose load has finished.
C2_NotReadyIs503 ==
    [][ /\ (Sent /\ resp'.endpoint = "predict"
              /\ (predictor = None \/ ~is_ready(objs[predictor])))
           => (resp'.status = 503 /\ resp'.target = None)
        /\ (predictor = None \/ ~is_ready(objs[predictor]))
           => Len(inflight') <= Len(inflight)
        /\ (Sent /\ resp'.target # None)
           => (resp'.target = predictor /\ Loaded(objs[predictor])
               /\ is_ready(objs[predictor])) ]_vars

C2_Witness ==
    /\ resp.endpoint = "predict" /\ resp.status = 503
    /\ predictor = None /\ startup = "done" /\ resp.started

\* C3: every /ready response agrees with is_ready() of the published
\* predictor: 503 exactly when the predictor is absent or not ready, and 200
\* with ready = true exactly when it is ready.
C3_ReadyAgrees ==
    [][ (Sent /\ resp'.endpoint = "ready")
        => /\ resp'.status \in {200, 503}
           /\ (resp'.status = 503) <=> (predictor = None \/ ~is_ready(objs[predictor]))
           /\ (resp'.status = 200) <=> (predictor # None /\ is_ready(objs[predictor]))
           /\ (resp'.status = 200) => resp'.flag ]_vars

C3_Witness ==
    /\ resp.endpoint = "ready" /\ resp.status = 200 /\ resp.flag
    /\ predictor # None /\ metrics.errors > 0

\* C4: after a load that failed at startup the process is still running,
\* the predictor is absent, /health answers 200 with model_loaded false,
\* /ready and /predict answer 503, and startup constructed one predictor only.
C4_DegradedNotCrashed ==
    StartupFailed =>
        /\ proc = "running"
        /\ predictor = None
        /\ inflight = <<>>
        /\ Cardinality({i \in ObjIds : objs[i].by = "startup"}) = 1
        /\ (resp.endpoint = "health" => (resp.status = 200 /\ ~resp.flag))
        /\ (resp.endpoint = "ready" => resp.status = 503)
        /\ (resp.endpoint = "predict" => (resp.status = 503 /\ resp.target = None))

C4_Witness ==
    /\ StartupFailed /\ startup = "done" /\ proc = "running"
    /\ resp.started /\ resp.endpoint = "health" /\ metrics.errors > 0

\* C5: the published predictor is absent or fully loaded (weights of the
\* checkpoint, on its device, in evaluation mode), and while startup's load
\* is running nothing is published and no request is in flight.
C5_PublishedIsLoaded ==
    /\ predictor # None =>
           LET o == objs[predictor] IN
           /\ Loaded(o) /\ is_ready(o)
           /\ ~o.model.training
           /\ o.model.dev = o.device
           /\ o.model.weights = <<ArtifactOf(o).sd.hidden, ArtifactOf(o).sd.out>>
           /\ o.model.theta = ArtifactOf(o).sd.theta
    /\ (\E i \in ObjIds : objs[i].by = "startup" /\ Running(objs[i]))
           => (predictor = None /\ inflight = <<>>)

C5_Witness ==
    /\ predictor # None /\ resp.endpoint = "predict" /\ resp.status = 200
    /\ resp.target = predictor

\* C6: no step takes a predictor from ready to not ready, removes a
\* predictor, or changes the published predictor once it is set or once
\* startup is over.
C6_NoWayBack ==
    [][ /\ Len(objs') >= Len(objs)
        /\ \A i \in ObjIds : is_ready(objs[i]) => is_ready(objs'[i])
        /\ (predictor # None \/ startup = "done") => predictor' = predictor ]_vars

C6_Witness ==
    /\ predictor # None /\ is_ready(objs[predictor])
    /\ resp.endpoint = "predict" /\ resp.status = 500 /\ resp.target = predictor
    /\ ret # None /\ nreq > 1

\* C7: is_ready() is false on every predictor whose load failed, whatever
\* the failure.
C7_FailedLoadNotReady ==
    \A i \in ObjIds : objs[i].pc = "raised" => ~is_ready(objs[i])

\* C8: once startup is over after a failed load, the serving boundary still
\* holds the error that made the load fail.
C8_ErrorRetained ==
    (startup = "done" /\ StartupFailed) => e = objs[StartupObj].exc

\* C9: a predictor that holds a model holds weights of the shape of the
\* architecture built from the config of its checkpoint; a load that got past
\* load_state_dict took weights of exactly that shape from the checkpoint, and
\* a state dict of another shape made it raise there.
C9_NoSilentReshape ==
    \A i \in ObjIds :
        LET o == objs[i]
            a == ArtifactOf(o)
        IN /\ is_ready(o) => (o.model.arch = ArchOf(a) /\ o.model.weights = ArchOf(a))
           /\ o.pc \in {"L62", "L63", "done"} => <<a.sd.hidden, a.sd.out>> = ArchOf(a)
           /\ (a.kind = "dict" /\ a.sd.present /\ <<a.sd.hidden, a.sd.out>> # ArchOf(a)
                 /\ ~Running(o))
              => (o.pc = "raised" /\ o.exc = "RuntimeError")

C9_Witness ==
    \E i \in ObjIds :
        /\ objs[i].pc = "raised" /\ objs[i].exc = "RuntimeError"
        /\ ArtifactOf(objs[i]).sd.hidden = HIDDEN

C11_NotFoundDistinct ==
    \A i \in ObjIds :
        LET o == objs[i] IN
        /\ (ArtifactOf(o).kind = "missing" /\ ~Running(o))
              => /\ o.pc = "raised" /\ o.exc = "FileNotFoundError"
                 /\ ~o.parsed /\ ~o.config_set /\ ~o.model.built
        /\ (ArtifactOf(o).kind = "garbage" /\ ~Running(o))
              => /\ o.pc = "raised" /\ o.exc # "FileNotFoundError" /\ o.parsed
        /\ o.exc = "FileNotFoundError" => ArtifactOf(o).kind = "missing"

C11_Witness ==
    \E i \in ObjIds :
        /\ ArtifactOf(objs[i]).kind = "missing"
        /\ objs[i].pc = "raised" /\ objs[i].exc = "FileNotFoundError"

\* The serving path has a predictor it takes for ready.
Ready == predictor # None /\ objs[predictor].model.built
\* A content type that is declared and does not start with "image/".
NonImage(ct) == ct = "text/plain"
\* Response r carries the result predict_from_bytes gives for its body when
\* it is the only call on its predictor: evaluation-mode logits of that body.
AsIfAlone(r) ==
    r.result = predict_from_bytes(objs[r.target], r.body,
                                  forward(objs[r.target].model, r.body))
\* A step in which a ready predictor answers a /predict request with an error.
FailedPredict == Sent /\ resp'.endpoint = "predict" /\ Ready /\ resp'.status # 200

\* C12: on a ready predictor, an upload declared as an image whose bytes do
\* not decode is answered with a 4xx status; the process keeps running and
\* the predictor stays Loaded.
C12_DecodeErrorIs4xx ==
    (resp.endpoint = "predict" /\ resp.target # None /\ ~Decodable(resp.body))
        => /\ resp.status \in 400..499
           /\ proc = "running"
           /\ Loaded(objs[resp.target])

C15_ConcurrentPredictsIndependent ==
    [][(Sent /\ resp'.target # None)
        => /\ objs' = objs /\ predictor' = predictor
           /\ Loaded(objs[resp'.target])
           /\ \E k \in 1..Len(inflight) :
                 /\ inflight[k].body = resp'.body
                 /\ inflight' = RemoveAt(inflight, k)
           /\ AsIfAlone(resp')]_vars

C15_Witness ==
    /\ resp.endpoint = "predict" /\ resp.status = 200 /\ resp.others > 0
    /\ Len(inflight) > 0 /\ inflight[1].body # resp.body

\* C16: every call of predict_from_bytes with the same bytes gives the same
\* outcome, whatever was called in between and on whichever predictor of the
\* same checkpoint.
C16_SameBytesSameResult ==
    \A b \in Bodies : Cardinality(results[b].outcomes) <= 1

C16_Witness ==
    \E b \in Bodies, c \in Bodies :
        /\ b # c /\ results[b].calls >= 2 /\ results[c].calls >= 1
        /\ resp.body = b /\ resp.result.ok

\* C17: a successful predict on a 2-class checkpoint returns probabilities
\* with exactly the keys cat (class index 0) and dog (class index 1), the
\* prediction is the key with the larger probability, and confidence and
\* probability both equal the probability of the predicted class.
C17_ResultShape ==
    (resp.target # None /\ resp.result.ok /\ objs[resp.target].model.arch[2] = 2)
        => LET r == resp.result
               p == softmax(forward(objs[resp.target].model, resp.body))
           IN /\ DOMAIN r.probabilities = {"cat", "dog"}
              /\ r.probabilities.cat = p[1] /\ r.probabilities.dog = p[2]
              /\ r.total = p[1] + p[2]
              /\ r.prediction \in {"cat", "dog"}
              /\ r.probabilities.cat > r.probabilities.dog => r.prediction = "cat"
              /\ r.probabilities.dog > r.probabilities.cat => r.prediction = "dog"
              /\ r.confidence = r.probabilities[r.prediction]
              /\ r.probability = r.probabilities[r.prediction]
              /\ resp.prediction = r.prediction

C17_Witness ==
    /\ resp.target # None /\ resp.result.ok /\ objs[resp.target].model.arch[2] = 2
    /\ resp.prediction = "dog"
    /\ resp.result.probabilities.dog > resp.result.probabilities.cat

\* C18: a predictor whose load has finished has its model in evaluation
\* mode, no step puts it back in training mode, and every forward pass runs
\* in evaluation mode.
C18_EvalModeKept ==
    [][/\ \A i \in 1..Len(objs') : Loaded(objs'[i]) => ~objs'[i].model.training
       /\ \A i \in ObjIds : ~objs[i].model.training /\ objs[i].model.built
                                => ~objs'[i].model.training
       /\ (Sent /\ resp'.fwd.ran) => ~resp'.fwd.training]_vars

C18_Witness ==
    /\ resp.fwd.ran /\ ~resp.fwd.training /\ resp.status = 200
    /\ nreq > 1

\* C19: the forward pass of predict_from_bytes runs with gradient tracking
\* off, and when the call returns or raises, gradient tracking is what it was
\* before the call.
C19_NoGradReleased ==
    [][(Sent /\ resp'.endpoint = "predict_from_bytes")
        => /\ grad' = grad
           /\ resp'.fwd.ran => ~resp'.fwd.grad]_vars

C19_Witness ==
    /\ grad /\ resp.endpoint = "predict_from_bytes"
    /\ resp.fwd.ran /\ resp.result.exc = "IndexError"

\* C20: a predictor constructed with a device has that device; one
\* constructed without has cuda when CUDA is available and cpu otherwise;
\* the device never changes afterwards and a loaded model is on it.
C20_DeviceChosenOnce ==
    [][\A i \in 1..Len(objs') :
        LET o == objs'[i] IN
        /\ o.device = IF o.arg_device # "" THEN o.arg_device
                       ELSE IF cuda THEN "cuda" ELSE "cpu"
        /\ i <= Len(objs) => o.device = objs[i].device
        /\ Loaded(o) => o.model.dev = o.device]_vars

C20_Witness ==
    \E i \in ObjIds :
        /\ cuda /\ objs[i].arg_device = "cpu" /\ objs[i].device = "cpu"
        /\ Loaded(objs[i]) /\ resp.target = i /\ resp.result.ok

\* C21: GET /health answers 200 with status "healthy" whether the predictor
\* is absent, failed or loaded, and its model_loaded is true exactly when the
\* global holds a predictor and that predictor is ready.
C21_HealthAlways200 ==
    [][(Sent /\ resp'.endpoint = "health")
        => /\ resp'.status = 200 /\ resp'.health = "healthy"
           /\ resp'.flag <=> (predictor # None /\ is_ready(objs[predictor]))
           /\ resp'.flag <=> \E i \in ObjIds : predictor = i /\ Loaded(objs[i])]_vars

C21_Witness ==
    /\ resp.endpoint = "health" /\ resp.status = 200 /\ ~resp.flag
    /\ resp.started /\ StartupFailed

\* The names of a pipeline, in order.
Names(ts) == [i \in 1..Len(ts) |-> ts[i].name]
Randomized == {"RandomHorizontalFlip", "RandomRotation", "ColorJitter"}
IsFixed(t) == t.name \notin Randomized
\* A preprocessing call on the inference side.
Inferring == ~(pre.entry = "preprocess_image" /\ pre.for_training)

\* C22: for a valid image of any mode, width and height and any target size,
\* inference preprocessing returns a tensor of shape (3, size, size).
C22_ShapeIsTargetSize ==
    (pre.pc = "done" /\ Inferring)
        => /\ pre.img.kind = "tensor"
           /\ pre.img.shape = <<3, pre.size, pre.size>>

C22_Witness ==
    /\ pre.pc = "done" /\ pre.entry = "preprocess_image_bytes"
    /\ pre.img.shape = <<3, pre.size, pre.size>>
    /\ pre.source[1] = "RGBA" /\ pre.source[2] # pre.source[3]
    /\ pre.source[2] # pre.size /\ pre.source[3] # pre.size

\* C24: the training pipeline is resize, horizontal flip (p 0.5), rotation
\* (15 degrees), colour jitter (0.2 each), tensor conversion, normalization,
\* in this order; the validation pipeline is that sequence without the three
\* randomized steps, with the same constants; and predict_from_bytes,
\* predict_from_file, preprocess_image_bytes and preprocess_image with
\* for_training false apply the validation pipeline and nothing else.
C24_PipelinesInOrder ==
    /\ \A sz \in 1..MaxSize :
          /\ get_train_transforms(sz) =
                << [name |-> "Resize", args |-> <<sz, sz>>],
                   [name |-> "RandomHorizontalFlip", args |-> <<50>>],
                   [name |-> "RandomRotation", args |-> <<15>>],
                   [name |-> "ColorJitter", args |-> <<20, 20, 20>>],
                   [name |-> "ToTensor", args |-> <<>>],
                   [name |-> "Normalize", args |-> <<485, 456, 406, 229, 224, 225>>] >>
          /\ get_val_transforms(sz) = SelectSeq(get_train_transforms(sz), IsFixed)
    /\ Inferring
          => /\ \A k \in 1..Len(pre.img.px) :
                   pre.img.px[k].name \notin Randomized /\ pre.img.px[k].draw = 0
             /\ pre.pc = "done"
                   => Names(pre.img.px) = <<"Resize", "ToTensor", "Normalize">>
    /\ (~Inferring /\ pre.pc = "done")
          => Names(pre.img.px) = Names(get_train_transforms(pre.size))

C24_Witness ==
    /\ pre.pc = "done" /\ pre.entry = "predict_from_file"
    /\ Names(pre.img.px) = <<"Resize", "ToTensor", "Normalize">>
    /\ pre.batch = <<1, 3, pre.size, pre.size>>

C25_NeverIndexError ==
    (resp.target # None /\ Loaded(objs[resp.target]) /\ Decodable(resp.body))
        => /\ resp.result.ok
           /\ resp.result.exc # "IndexError"
           /\ resp.result.prediction \in {"cat", "dog"}

\* C26: every response of POST /predict comes with exactly one counter
\* increased by exactly one: predictions_total of the returned class when the
\* status is 200, prediction_errors_total when it is 503, 400 or 500; an
\* upload without content type is no exception.
C26_ExactlyOneCounter ==
    [][(Sent /\ resp'.endpoint = "predict")
        => metrics' = Inc(metrics, IF resp'.status = 200 THEN resp'.prediction
                                   ELSE "errors")]_vars

\* C27: with threads calling get_predictor at the same time on an unset
\* global, at most one predictor is ever constructed successfully and every
\* call that returns gives the same instance.
C27_OneInstance ==
    /\ Cardinality({i \in ObjIds : Loaded(objs[i])}) <= 1
    /\ \A t \in Threads, u \in Threads :
          (callers[t].ret # None /\ callers[u].ret # None)
              => callers[t].ret = callers[u].ret

\* C28: in sequential use, once the global is set every call returns that
\* instance and constructs nothing, whatever path it is given; a call whose
\* construction fails leaves the global unset and raises, and a call that
\* finds the global unset attempts the load.
C28_SequentialCalls ==
    [][/\ _predictor # None => (_predictor' = _predictor /\ objs' = objs)
       /\ (callers[1].pc = "L150" /\ callers'[1].pc = "idle")
            => /\ callers'[1].ret = _predictor /\ _predictor # None
               /\ Loaded(objs[_predictor])
       /\ (callers[1].pc = "L148" /\ callers'[1].pc # "L148")
            => callers'[1].pc = IF _predictor = None THEN "L149" ELSE "L150"
       /\ (callers[1].pc = "L149" /\ callers'[1].pc # "L149")
            => /\ Len(objs') = Len(objs) + 1
               /\ objs'[Len(objs')].model_path = callers[1].path
               /\ IF Loaded(objs'[Len(objs')])
                  THEN callers'[1].pc = "assign"
                  ELSE /\ callers'[1].pc = "idle" /\ callers'[1].exc # ""
                       /\ callers'[1].ret = None /\ _predictor' = None
       /\ (callers[1].pc = "assign" /\ callers'[1].pc # "assign")
            => _predictor' = Len(objs) /\ callers'[1].pc = "L150"]_vars

C28_Witness ==
    /\ callers[1].calls = 3 /\ callers[1].pc = "idle"
    /\ Len(objs) = 2 /\ objs[1].pc = "raised" /\ Loaded(objs[2])
    /\ callers[1].ret = 2 /\ callers[1].path # objs[2].model_path

\* The largest of 0 and the accuracies in s.
BestOf(s) == CHOOSE m \in {0} \cup {s[i] : i \in 1..Len(s)} :
                \A i \in 1..Len(s) : s[i] <= m
\* The first epoch (1-based) whose accuracy is BestOf(s); 0 when BestOf(s) is 0.
FirstBest(s) ==
    IF BestOf(s) = 0 THEN 0
    ELSE CHOOSE i \in 1..Len(s) : s[i] = BestOf(s) /\ \A j \in 1..(i - 1) : s[j] < s[i]

\* C29: after every epoch best_val_acc is the largest of 0.0 and the
\* validation accuracies so far, best_epoch is the first epoch that reached
\* it (0 when none is above 0.0), and the checkpoint was last written in that
\* epoch: never in an epoch that did not strictly improve, and not at all
\* when no epoch is above 0.0.
C29_BestCheckpoint ==
    trainer.pc \in {"loop", "done"}
        => /\ Len(trainer.val_accs) = trainer.epoch
           /\ trainer.best_val_acc = BestOf(trainer.val_accs)
           /\ trainer.best_epoch = FirstBest(trainer.val_accs)
           /\ trainer.written_in = trainer.best_epoch
           /\ (trainer.file = NoFile) <=> (BestOf(trainer.val_accs) = 0)

C29_Witness ==
    /\ trainer.pc = "done" /\ trainer.epoch = 3
    /\ trainer.val_accs[1] < trainer.val_accs[2]
    /\ trainer.val_accs[3] = trainer.val_accs[2]
    /\ trainer.best_epoch = 2 /\ trainer.written_in = 2

\* C30: validate_model passes its accuracy gate only for a checkpoint whose
\* val_accuracy is above 0.50; with val_accuracy at most 0.50 or absent it
\* exits with status 1 and runs no inference test, and so it does for every
\* checkpoint save_model writes.
C30_AccuracyGate ==
    LET c == validator.ckpt
        low == "val_accuracy" \notin c.keys \/ c.val_accuracy <= 50
    IN /\ validator.passed => ("val_accuracy" \in c.keys /\ c.val_accuracy > 50)
       /\ low => ~validator.passed /\ ~validator.inference
       /\ (validator.pc = "exit" /\ low) => validator.status = 1
       /\ (validator.pc = "exit" /\ validator.status = 0) => validator.passed
       /\ \A n \in 1..MaxClasses :
            /\ save_model(n) \in ValCheckpoints
            /\ c = save_model(n) => ~validator.passed /\ ~validator.inference

C30_Witness ==
    /\ validator.ckpt = save_model(DEFAULT_NUM_CLASSES)
    /\ validator.pc = "exit" /\ validator.status = 1
    /\ validator.val_acc = 0 /\ ~validator.inference

====
